---- MODULE Spec2Model ----
(***************************************************************************)
(* Model of the Gemns IoT advertisement packet codec                       *)
(* (custom_components/gemns_iot/packet_parser.py).                         *)
(*                                                                         *)
(* Python values are modelled as follows: a bytes object is a sequence of  *)
(* integers 0..255, a dict is a record whose fields are the dict's keys    *)
(* (key presence is membership in DOMAIN), None is the record None, an     *)
(* optional bytes key is None or [bytes |-> <<...>>], and a raised         *)
(* exception is the record [raised |-> <exception class>].                 *)
(***************************************************************************)
EXTENDS Integers, Sequences, FiniteSets, TLC

VARIABLES
    pc,                 \* "ready": inputs drawn, no call made; "returned": the call returned
    op,                 \* the entry point that was called
    arg_data,           \* the manufacturer_data bytes handed to the call
    arg_key,            \* the decryption_key handed to the call (None or [bytes |-> ...])
    arg_record,         \* the decrypted_data dict handed to parse_sensor_data (None otherwise)
    history,            \* the parse_gems_packet calls completed so far: arguments and value
    result,             \* the value the call returned
    log,                \* warning/error records the call logged, in order
    calls,              \* the callees the call invoked, in order
    coord_address,      \* the coordinator's self.address
    coord_data,         \* the coordinator's self.data
    coord_success,      \* the coordinator's self.last_update_success
    coord_notified,     \* whether the handler that ran last called async_update_listeners
    entry_data,         \* the config entry's data (address, decryption_key)
    disc_pc,            \* where the coordinator's discovery stands
    attempts,           \* the discovery passes run so far
    mgr_devices,        \* the device manager's self.devices
    mgr_created,        \* the device manager's self._created_entities
    mgr_tasks,          \* the notification tasks the device manager scheduled, in order
    mgr_signals,        \* the dispatcher signals sent so far, in order
    mgr_result          \* what the last add_device call returned, None before

\* the codec calls, the coordinator and the device manager
codecVars == <<pc, op, arg_data, arg_key, arg_record, history, result, log, calls>>

coordVars == <<coord_address, coord_data, coord_success, coord_notified,
               entry_data, disc_pc, attempts>>

mgrVars == <<mgr_devices, mgr_created, mgr_tasks, mgr_signals, mgr_result>>

vars == <<codecVars, coordVars, mgrVars>>

----------------------------------------------------------------------------
(* Python values *)

None == [NoneType |-> TRUE]

Bytes(s) == [bytes |-> s]

Raised(cls) == [raised |-> cls]

IsRaised(v) == "raised" \in DOMAIN v

\* the classes both "except (ValueError, KeyError, AttributeError, TypeError)"
\* clauses of the parser catch; any other exception propagates to the caller
CaughtExceptions == {"ValueError", "KeyError", "AttributeError", "TypeError"}

\* truthiness of an optional bytes object: None and b"" are falsy
Truthy(k) == k # None /\ Len(k.bytes) > 0

Min(a, b) == IF a < b THEN a ELSE b

\* data[lo:hi] for 0 <= lo <= hi (Python slicing clamps to the length)
Slice(data, lo, hi) == SubSeq(data, lo + 1, Min(hi, Len(data)))

\* a ^ b on non-negative integers of at most n bits
RECURSIVE XorBits(_, _, _)
XorBits(a, b, n) ==
    IF n = 0 THEN 0
    ELSE (((a % 2) + (b % 2)) % 2) + 2 * XorBits(a \div 2, b \div 2, n - 1)

Xor(a, b) == XorBits(a, b, 9)

\* struct.pack('<H', v)
PackLE16(v) == <<v % 256, (v \div 256) % 256>>

\* struct.unpack('<H', b)[0]
UnpackLE16(b) == b[1] + 256 * b[2]

\* struct.unpack('<I', b)[0]
UnpackLE32(b) == b[1] + 256 * b[2] + 65536 * b[3] + 16777216 * b[4]

\* str(n) for the two nibbles of the firmware byte
DecimalStr(n) == ToString(n)

\* {}: a dict without keys
EmptyDict == [k \in {} |-> None]

\* no coordinator has been constructed
CoordAbsent ==
    /\ coord_address = ""
    /\ coord_data = EmptyDict
    /\ coord_success = FALSE
    /\ coord_notified = FALSE
    /\ entry_data = EmptyDict
    /\ disc_pc = "absent"
    /\ attempts = 0

\* no codec call is being made
CodecIdle ==
    /\ pc = "idle"
    /\ op = "none"
    /\ arg_data = <<>>
    /\ arg_key = None
    /\ arg_record = None
    /\ history = <<>>
    /\ result = None
    /\ log = <<>>
    /\ calls = <<>>

\* no device manager has been constructed
MgrAbsent ==
    /\ mgr_devices = EmptyDict
    /\ mgr_created = {}
    /\ mgr_tasks = <<>>
    /\ mgr_signals = <<>>
    /\ mgr_result = None

----------------------------------------------------------------------------
(* packet_parser.py *)

COMPANY_ID == 3996

PACKET_LENGTH == 18

ENCRYPTED_DATA_SIZE == 16

\* mutant: payload_length is masked without the shift by 4
GemnsPacketFlags_unshifted_length(flags_byte) ==
    [ encrypt_status      |-> flags_byte % 2,
      self_external_power |-> (flags_byte \div 2) % 2,
      event_counter_lsb   |-> (flags_byte \div 4) % 4,
      payload_length      |-> flags_byte % 16 ]

GemnsPacketFlags(flags_byte) ==
    [ encrypt_status      |-> flags_byte % 2,
      self_external_power |-> (flags_byte \div 2) % 2,
      event_counter_lsb   |-> (flags_byte \div 4) % 4,
      payload_length      |-> (flags_byte \div 16) % 16 ]

\* mutant: nwk_id and the fields after it are sliced one byte early
GemnsEncryptedData_shifted(data) ==
    IF Len(data) # ENCRYPTED_DATA_SIZE THEN Raised("ValueError")
    ELSE [ data_bytes  |-> data,
           src_id      |-> Slice(data, 0, 3),
           nwk_id      |-> Slice(data, 2, 4),
           fw_version  |-> data[5],
           device_type |-> Slice(data, 5, 7),
           payload     |-> Slice(data, 7, 15) ]

GemnsEncryptedData(data) ==
    IF Len(data) # ENCRYPTED_DATA_SIZE THEN Raised("ValueError")
    ELSE [ data_bytes  |-> data,
           src_id      |-> Slice(data, 0, 3),
           nwk_id      |-> Slice(data, 3, 5),
           fw_version  |-> data[6],
           device_type |-> Slice(data, 6, 8),
           payload     |-> Slice(data, 8, 16) ]

\* the fields GemnsPacket.__init__ sets once the length check has passed
GemnsPacket_fields(raw_data) ==
    LET enc == GemnsEncryptedData(Slice(raw_data, 1, 17)) IN
    IF IsRaised(enc) THEN enc
    ELSE [ raw_data       |-> raw_data,
           company_id     |-> COMPANY_ID,
           flags          |-> GemnsPacketFlags(raw_data[1]),
           encrypted_data |-> enc,
           crc            |-> raw_data[18] ]

\* mutant: the length check is off by one, so a 17-byte input reaches
\* raw_data[17] and raises IndexError, which no except clause catches
GemnsPacket_off_by_one(raw_data) ==
    IF Len(raw_data) < PACKET_LENGTH - 1 THEN Raised("ValueError")
    ELSE IF Len(raw_data) < 18 THEN Raised("IndexError")
    ELSE GemnsPacket_fields(raw_data)

GemnsPacket(raw_data) ==
    IF Len(raw_data) < PACKET_LENGTH THEN Raised("ValueError")
    ELSE GemnsPacket_fields(raw_data)

is_valid_company_id(packet) == packet.company_id = COMPANY_ID

\* mutant: the polynomial is 0x31 instead of 0x07
RECURSIVE crc8_shift_poly31(_, _)
crc8_shift_poly31(crc, n) ==
    IF n = 0 THEN crc
    ELSE IF crc \div 128 = 1
    THEN crc8_shift_poly31(Xor(crc * 2, 49) % 256, n - 1)
    ELSE crc8_shift_poly31((crc * 2) % 256, n - 1)

\* mutant: the shift steps never xor the polynomial in
RECURSIVE crc8_shift_no_poly(_, _)
crc8_shift_no_poly(crc, n) ==
    IF n = 0 THEN crc ELSE crc8_shift_no_poly((crc * 2) % 256, n - 1)

\* the inner loop "for _ in range(8)": n shift steps on the running crc
RECURSIVE crc8_shift(_, _)
crc8_shift(crc, n) ==
    IF n = 0 THEN crc
    ELSE IF (crc \div 128) % 2 = 1
    THEN crc8_shift(Xor(crc * 2, 7) % 256, n - 1)
    ELSE crc8_shift((crc * 2) % 256, n - 1)

\* the effect of one iteration of the outer loop on the crc already xor-ed
\* with the byte (the eight shift steps, tabulated once per value)
crc8_table == [x \in 0..255 |-> crc8_shift(x, 8)]

\* the outer loop "for byte in data": the crc after the first n bytes
RECURSIVE crc8_after(_, _)
crc8_after(data, n) ==
    IF n = 0 THEN 0
    ELSE crc8_table[Xor(crc8_after(data, n - 1), data[n])]

_calculate_crc8(data) == crc8_after(data, Len(data))

\* mutant: the CRC byte is left inside the checked span
data_to_check_with_crc(packet) == PackLE16(COMPANY_ID) \o packet.raw_data

\* the span validate_crc hands to _calculate_crc8
data_to_check(packet) ==
    LET company_id_bytes == PackLE16(COMPANY_ID)
        full_packet      == company_id_bytes \o packet.raw_data
    IN  SubSeq(full_packet, 1, Len(full_packet) - 1)

calculated_crc(packet) == _calculate_crc8(data_to_check(packet))

validate_crc(packet) == calculated_crc(packet) = packet.crc

\* algorithms.AES(key): the key sizes the cipher library accepts, in bytes
\* (AES-128, AES-192, AES-256); any other length raises ValueError
AES_KEY_SIZES == {16, 24, 32}

\* Cipher(AES(key), ECB()).encryptor(): the inverse of the bijection below
AESEncryptBlock(key, block) ==
    [i \in 1..Len(block) |->
        (block[i] + key[((i - 1) % Len(key)) + 1] + i) % 256]

\* mutant: decrypt_payload calls cipher.encryptor() instead of
\* cipher.decryptor()
AESDecryptBlock_encrypting(key, block) == AESEncryptBlock(key, block)

\* Cipher(AES(key), ECB()).decryptor().update(block) + finalize(): AES itself
\* is outside the repository; it is abstracted as a key-dependent bijection
\* on 16-byte blocks that is not the identity
AESDecryptBlock(key, block) ==
    [i \in 1..Len(block) |->
        (block[i] + 512 - key[((i - 1) % Len(key)) + 1] - i) % 256]

\* the cipher branch of decrypt_payload: AES-ECB decryption of the block
cipher_decrypt(packet, decryption_key) ==
    IF decryption_key = None
    THEN Raised("TypeError") @@ [calls |-> <<"AES">>]
    ELSE IF Len(decryption_key.bytes) \notin AES_KEY_SIZES
    THEN Raised("ValueError") @@ [calls |-> <<"AES">>]
    ELSE [data  |-> AESDecryptBlock(decryption_key.bytes,
                                    packet.encrypted_data.data_bytes),
          calls |-> <<"AES", "decryptor.update">>]

\* mutant: the polarity of encrypt_status is read the intuitive way round
\* (1 = encrypted), so cleartext blocks go through the cipher
decrypted_data_of_inverted(packet, decryption_key) ==
    IF packet.flags.encrypt_status = 0
    THEN [data |-> packet.encrypted_data.data_bytes, calls |-> <<>>]
    ELSE cipher_decrypt(packet, decryption_key)

\* the try-body of decrypt_payload up to decrypted_data:
\* [data |-> bytes, calls |-> callees invoked], or a raised exception
decrypted_data_of(packet, decryption_key) ==
    IF packet.flags.encrypt_status = 1
    THEN [data |-> packet.encrypted_data.data_bytes, calls |-> <<>>]
    ELSE cipher_decrypt(packet, decryption_key)

\* mutant: the two nibbles are swapped
firmware_version_of_swapped(fw_byte) ==
    LET major_version == fw_byte % 16
        minor_version == (fw_byte \div 16) % 16
    IN  DecimalStr(major_version) \o "." \o DecimalStr(minor_version)

firmware_version_of(fw_byte) ==
    LET major_version == (fw_byte \div 16) % 16
        minor_version == fw_byte % 16
    IN  DecimalStr(major_version) \o "." \o DecimalStr(minor_version)

\* decrypt_payload: [ret |-> dict or None, log |-> ..., calls |-> ...]
decrypt_payload_run(packet, decryption_key) ==
    LET d == decrypted_data_of(packet, decryption_key) IN
    IF IsRaised(d)
    THEN [ret   |-> IF d.raised \in CaughtExceptions THEN None ELSE Raised(d.raised),
          log   |-> IF d.raised \in CaughtExceptions
                    THEN <<"error: Decryption failed">> ELSE <<>>,
          calls |-> d.calls]
    ELSE LET decrypted_packet == GemnsEncryptedData(d.data) IN
         IF IsRaised(decrypted_packet)
         THEN [ret   |-> None, log |-> <<"error: Decryption failed">>,
               calls |-> d.calls \o <<"GemnsEncryptedData">>]
         ELSE [ret |->
                 [ src_id            |-> UnpackLE32(decrypted_packet.src_id \o <<0>>),
                   nwk_id            |-> UnpackLE16(decrypted_packet.nwk_id),
                   fw_version        |-> decrypted_packet.fw_version,
                   firmware_version  |-> firmware_version_of(decrypted_packet.fw_version),
                   device_type       |-> decrypted_packet.device_type,
                   payload           |-> decrypted_packet.payload,
                   event_counter_lsb |-> packet.flags.event_counter_lsb,
                   payload_length    |-> packet.flags.payload_length,
                   encrypt_status    |-> packet.flags.encrypt_status,
                   power_status      |-> packet.flags.self_external_power ],
               log   |-> <<>>,
               calls |-> d.calls \o <<"GemnsEncryptedData">>]

decrypt_payload(packet, decryption_key) ==
    decrypt_payload_run(packet, decryption_key).ret

\* mutant: the boolean is set from a threshold on the event code
event_fields_threshold(payload, flag_name, true_code) ==
    IF Len(payload) >= 4
    THEN LET event_counter == UnpackLE32(Slice(payload, 0, 3) \o <<0>>)
             sensor_event  == payload[4]
         IN  [event_counter |-> event_counter, sensor_event |-> sensor_event]
             @@ (flag_name :> (sensor_event >= true_code))
    ELSE [event_counter |-> 0, sensor_event |-> 0] @@ (flag_name :> FALSE)

\* mutant: a payload shorter than 4 bytes is padded with zeros and decoded
event_fields_padded(payload, flag_name, true_code) ==
    LET padded        == SubSeq(payload \o <<0, 0, 0, 0>>, 1, 4)
        event_counter == UnpackLE32(Slice(padded, 0, 3) \o <<0>>)
        sensor_event  == padded[4]
    IN  [event_counter |-> event_counter, sensor_event |-> sensor_event]
        @@ (flag_name :> (sensor_event = true_code))

\* mutant: the event counter is unpacked from payload[0:4], event code included
event_fields_four_byte_counter(payload, flag_name, true_code) ==
    IF Len(payload) >= 4
    THEN LET event_counter == UnpackLE32(Slice(payload, 0, 4))
             sensor_event  == payload[4]
         IN  [event_counter |-> event_counter, sensor_event |-> sensor_event]
             @@ (flag_name :> (sensor_event = true_code))
    ELSE [event_counter |-> 0, sensor_event |-> 0] @@ (flag_name :> FALSE)

\* the three fields every known device type adds to sensor_data
event_fields(payload, flag_name, true_code) ==
    IF Len(payload) >= 4
    THEN LET event_counter == UnpackLE32(Slice(payload, 0, 3) \o <<0>>)
             sensor_event  == payload[4]
         IN  [event_counter |-> event_counter, sensor_event |-> sensor_event]
             @@ (flag_name :> (sensor_event = true_code))
    ELSE [event_counter |-> 0, sensor_event |-> 0] @@ (flag_name :> FALSE)

\* mutant: the branches are independent ifs and the last one tests
\* device_type <= 3, so a two-way switch gets button_pressed as well
parse_sensor_data_independent_ifs(decrypted_data) ==
    LET device_type == UnpackLE16(decrypted_data.device_type)
        payload     == decrypted_data.payload
        sensor_data == [ device_type       |-> device_type,
                         event_counter_lsb |-> decrypted_data.event_counter_lsb,
                         payload_length    |-> decrypted_data.payload_length,
                         encrypt_status    |-> decrypted_data.encrypt_status,
                         power_status      |-> decrypted_data.power_status ]
        leak        == IF device_type = 4
                       THEN event_fields(payload, "leak_detected", 4) ELSE EmptyDict
        vibration   == IF device_type = 2
                       THEN event_fields(payload, "vibration_detected", 1) ELSE EmptyDict
        switch      == IF device_type = 3
                       THEN event_fields(payload, "switch_on", 3) ELSE EmptyDict
        button      == IF device_type <= 3
                       THEN event_fields(payload, "button_pressed", 0) ELSE EmptyDict
    IN  button @@ switch @@ vibration @@ leak @@ sensor_data

\* mutant: a declared payload_length below 4 makes the payload count as empty
parse_sensor_data_gated(decrypted_data) ==
    LET device_type == UnpackLE16(decrypted_data.device_type)
        payload     == IF decrypted_data.payload_length < 4
                       THEN <<>> ELSE decrypted_data.payload
        sensor_data == [ device_type       |-> device_type,
                         event_counter_lsb |-> decrypted_data.event_counter_lsb,
                         payload_length    |-> decrypted_data.payload_length,
                         encrypt_status    |-> decrypted_data.encrypt_status,
                         power_status      |-> decrypted_data.power_status ]
    IN  IF device_type = 4
        THEN event_fields(payload, "leak_detected", 4) @@ sensor_data
        ELSE IF device_type = 2
        THEN event_fields(payload, "vibration_detected", 1) @@ sensor_data
        ELSE IF device_type = 3
        THEN event_fields(payload, "switch_on", 3) @@ sensor_data
        ELSE IF device_type \in {0, 1}
        THEN event_fields(payload, "button_pressed", 0) @@ sensor_data
        ELSE sensor_data

parse_sensor_data(decrypted_data) ==
    LET device_type == UnpackLE16(decrypted_data.device_type)
        payload     == decrypted_data.payload
        sensor_data == [ device_type       |-> device_type,
                         event_counter_lsb |-> decrypted_data.event_counter_lsb,
                         payload_length    |-> decrypted_data.payload_length,
                         encrypt_status    |-> decrypted_data.encrypt_status,
                         power_status      |-> decrypted_data.power_status ]
    IN  IF device_type = 4
        THEN event_fields(payload, "leak_detected", 4) @@ sensor_data
        ELSE IF device_type = 2
        THEN event_fields(payload, "vibration_detected", 1) @@ sensor_data
        ELSE IF device_type = 3
        THEN event_fields(payload, "switch_on", 3) @@ sensor_data
        ELSE IF device_type \in {0, 1}
        THEN event_fields(payload, "button_pressed", 0) @@ sensor_data
        ELSE sensor_data

\* the result dict built after the CRC gate
base_result(packet) ==
    [ company_id |-> packet.company_id,
      flags      |-> [ encrypt_status      |-> packet.flags.encrypt_status,
                       self_external_power |-> packet.flags.self_external_power,
                       event_counter_lsb   |-> packet.flags.event_counter_lsb,
                       payload_length      |-> packet.flags.payload_length ],
      crc        |-> packet.crc ]

\* mutant: the result gets the decoded record but the sensor event is dropped
decrypt_and_parse_no_event(packet, decryption_key, res, done) ==
    LET d == decrypt_payload_run(packet, decryption_key) IN
    [ret   |-> IF d.ret # None THEN [decrypted_data |-> d.ret] @@ res ELSE res,
     log   |-> d.log,
     calls |-> done \o <<"decrypt_payload">> \o d.calls]

\* the body of "if decryption_key:": decrypt_payload, and parse_sensor_data
\* when it returned a record
decrypt_and_parse(packet, decryption_key, res, done) ==
    LET d == decrypt_payload_run(packet, decryption_key) IN
    IF IsRaised(d.ret)
    THEN [ret   |-> d.ret, log |-> d.log,
          calls |-> done \o <<"decrypt_payload">> \o d.calls]
    ELSE IF d.ret # None
    THEN [ret   |-> [decrypted_data |-> d.ret,
                     sensor_data    |-> parse_sensor_data(d.ret)] @@ res,
          log   |-> d.log,
          calls |-> done \o <<"decrypt_payload">> \o d.calls
                         \o <<"parse_sensor_data">>]
    ELSE [ret   |-> res, log |-> d.log,
          calls |-> done \o <<"decrypt_payload">> \o d.calls]

\* mutant: decrypt_payload is called whether or not a key was supplied
decrypt_stage_ungated(packet, decryption_key, res, done) ==
    decrypt_and_parse(packet, decryption_key, res, done)

\* the "if decryption_key:" block of parse_gems_packet
decrypt_stage(packet, decryption_key, res, done) ==
    IF Truthy(decryption_key)
    THEN decrypt_and_parse(packet, decryption_key, res, done)
    ELSE [ret |-> res, log |-> <<>>, calls |-> done]

\* mutant: the CRC gate is missing
crc_gate_open(packet) == TRUE

\* mutant: the CRC gate lets a packet through only on the caller's first call
crc_gate_first_call_only(packet) == validate_crc(packet) /\ history = <<>>

\* whether the CRC gate of parse_gems_packet lets the packet through
crc_gate(packet) == validate_crc(packet)

\* parse_gems_packet: [ret |-> dict or None, log |-> ..., calls |-> ...]
parse_gems_packet_run(data, decryption_key) ==
    LET packet == GemnsPacket(data) IN
    IF IsRaised(packet)
    THEN [ret   |-> IF packet.raised \in CaughtExceptions THEN None ELSE packet,
          log   |-> IF packet.raised \in CaughtExceptions
                    THEN <<"error: Failed to parse packet">> ELSE <<>>,
          calls |-> <<"GemnsPacket">>]
    ELSE IF ~is_valid_company_id(packet)
    THEN [ret |-> None, log |-> <<>>, calls |-> <<"GemnsPacket", "is_valid_company_id">>]
    ELSE IF ~crc_gate(packet)
    THEN [ret   |-> None, log |-> <<"warning: CRC validation failed">>,
          calls |-> <<"GemnsPacket", "is_valid_company_id", "validate_crc">>]
    ELSE decrypt_stage(packet, decryption_key, base_result(packet),
                       <<"GemnsPacket", "is_valid_company_id", "validate_crc">>)

parse_gems_packet(data, decryption_key) ==
    parse_gems_packet_run(data, decryption_key).ret

----------------------------------------------------------------------------
(* The inputs the calls are made with *)

\* how many bytes may follow the 18-byte frame
MaxExtra == 2

FlagBytes == {0, 1, 64, 131}

FwBytes == {16, 35}

DeviceTypes == {1, 4, 7}

TrailBytes == {0, 90}

KeyFill == {43, 200}

KeyLens == {1, 15, 17, 24, 32}

\* a 16-byte record: src_id 01 02 03, nwk_id 04 05, firmware byte, device
\* type (LE), payload with event counter 1 and event code 4
RecordBlock(fw, dt) == <<1, 2, 3, 4, 5, fw, dt, 0, 1, 0, 0, 4, 0, 0, 0, 0>>

Blocks == {RecordBlock(fw, dt) : fw \in FwBytes, dt \in DeviceTypes}

\* the CRC byte a transmitter appends to flags and block
FrameCrc(flags, block) == _calculate_crc8(PackLE16(COMPANY_ID) \o <<flags>> \o block)

\* 18-byte frames: with the right CRC byte, with one bit of it flipped, with 0
Frames ==
    UNION {{<<f>> \o b \o <<c>> :
              c \in {FrameCrc(f, b), Xor(FrameCrc(f, b), 1), 0}} :
           f \in FlagBytes, b \in Blocks}

RECURSIVE SeqsUpTo(_, _)
SeqsUpTo(S, n) ==
    IF n = 0 THEN {<<>>}
    ELSE LET shorter == SeqsUpTo(S, n - 1) IN
         shorter \cup {Append(s, x) : s \in shorter, x \in S}

\* frames cut short, exact, and followed by up to MaxExtra bytes
Inputs ==
    {SubSeq(fr, 1, n) : fr \in Frames, n \in {0, 1, 17}}
    \cup {fr \o t : fr \in Frames, t \in SeqsUpTo(TrailBytes, MaxExtra)}

Keys ==
    {None, Bytes(<<>>)}
    \cup {Bytes([i \in 1..16 |-> v]) : v \in KeyFill}
    \cup {Bytes([i \in 1..n |-> 43]) : n \in KeyLens}

\* a 16-byte record with the given firmware byte, device type, 3-byte event
\* counter, event code and payload bytes 4..7
FieldBlock(fw, dt, counter, ev, tail) ==
    <<1, 2, 3, 4, 5, fw, dt % 256, dt \div 256>> \o counter \o <<ev>> \o tail

\* the 18-byte frame a transmitter sends for a flags byte and a block
Frame(flags, block) == <<flags>> \o block \o <<FrameCrc(flags, block)>>

\* device types of the event-code sweep: the known ones, 5 and 9, and 260
\* (low byte 4, high byte 1)
SweepTypes == {0, 1, 2, 3, 4, 5, 9, 260}

PayloadTypes == {0, 1, 2, 3, 4, 7}

PayloadFlags == {1, 49, 65, 241}

Counters == {<<0, 0, 0>>, <<1, 2, 3>>, <<255, 255, 255>>}

EventCodes == {0, 1, 3, 4, 200}

Tails == {<<0, 0, 0, 0>>, <<9, 8, 7, 6>>}

\* a block whose fields all differ from one another
DistinctBlock ==
    <<17, 34, 51, 68, 85, 102, 4, 0, 119, 136, 153, 4, 170, 187, 204, 221>>

FieldFrames ==
    {Frame(1, FieldBlock(16, dt, <<1, 0, 0>>, ev, <<0, 0, 0, 0>>)) :
        dt \in SweepTypes, ev \in 0..255}
    \cup {Frame(1, FieldBlock(fw, 4, <<1, 0, 0>>, 4, <<0, 0, 0, 0>>)) :
        fw \in 0..255}
    \cup {Frame(f, FieldBlock(16, 4, <<1, 0, 0>>, 4, <<0, 0, 0, 0>>)) :
        f \in 0..255}
    \cup UNION {{Frame(f, FieldBlock(16, dt, c, ev, t)) :
                   f \in PayloadFlags, dt \in PayloadTypes, ev \in EventCodes} :
                c \in Counters, t \in Tails}
    \cup {Frame(f, DistinctBlock) : f \in {0, 1}}

FieldKeys == {Bytes([i \in 1..16 |-> 43])}

----------------------------------------------------------------------------
(* The state machine: inputs are drawn, then one entry point is called *)

Init ==
    /\ pc = "ready"
    /\ op = "none"
    /\ arg_data \in Inputs
    /\ arg_key \in Keys
    /\ arg_record = None
    /\ history = <<>>
    /\ result = None
    /\ log = <<>>
    /\ calls = <<>>
    /\ CoordAbsent
    /\ MgrAbsent

\* a caller invokes parse_gems_packet(manufacturer_data, decryption_key)
CallParseGemsPacket ==
    /\ pc = "ready"
    /\ LET r == parse_gems_packet_run(arg_data, arg_key) IN
       /\ result' = r.ret
       /\ log' = r.log
       /\ calls' = r.calls
       /\ history' = Append(history, [data |-> arg_data, key |-> arg_key, ret |-> r.ret])
    /\ pc' = "returned"
    /\ op' = "parse_gems_packet"
    /\ UNCHANGED <<arg_data, arg_key, arg_record>>
    /\ UNCHANGED <<coordVars, mgrVars>>

\* a caller builds GemnsPacket(manufacturer_data) and invokes
\* decrypt_payload(decryption_key) on it
CallDecryptPayload ==
    /\ pc = "ready"
    /\ ~IsRaised(GemnsPacket(arg_data))
    /\ LET r == decrypt_payload_run(GemnsPacket(arg_data), arg_key) IN
       /\ result' = r.ret
       /\ log' = r.log
       /\ calls' = r.calls
    /\ pc' = "returned"
    /\ op' = "decrypt_payload"
    /\ UNCHANGED <<arg_data, arg_key, arg_record, history>>
    /\ UNCHANGED <<coordVars, mgrVars>>

\* a caller builds GemnsPacket(manufacturer_data) and invokes validate_crc()
CallValidateCrc ==
    /\ pc = "ready"
    /\ ~IsRaised(GemnsPacket(arg_data))
    /\ result' = validate_crc(GemnsPacket(arg_data))
    /\ log' = <<>>
    /\ calls' = <<"_calculate_crc8">>
    /\ pc' = "returned"
    /\ op' = "validate_crc"
    /\ UNCHANGED <<arg_data, arg_key, arg_record, history>>
    /\ UNCHANGED <<coordVars, mgrVars>>

\* the payload lengths of the records handed to parse_sensor_data directly
PayloadLens == {3, 4, 8}

\* a caller obtains a record from decrypt_payload, keeps the first n bytes of
\* its payload, and invokes parse_sensor_data(decrypted_data) on it
CallParseSensorData ==
    /\ pc = "ready"
    /\ ~IsRaised(GemnsPacket(arg_data))
    /\ LET d == decrypt_payload(GemnsPacket(arg_data), arg_key) IN
       /\ ~IsRaised(d)
       /\ d # None
       /\ \E n \in PayloadLens :
            LET decrypted_data == [d EXCEPT !.payload = SubSeq(@, 1, n)] IN
            /\ arg_record' = decrypted_data
            /\ result' = parse_sensor_data(decrypted_data)
    /\ log' = <<>>
    /\ calls' = <<>>
    /\ pc' = "returned"
    /\ op' = "parse_sensor_data"
    /\ UNCHANGED <<arg_data, arg_key, history>>
    /\ UNCHANGED <<coordVars, mgrVars>>

\* a caller invokes _calculate_crc8(data) on the raw bytes
CallCalculateCrc8 ==
    /\ pc = "ready"
    /\ result' = _calculate_crc8(arg_data)
    /\ log' = <<>>
    /\ calls' = <<>>
    /\ pc' = "returned"
    /\ op' = "_calculate_crc8"
    /\ UNCHANGED <<arg_data, arg_key, arg_record, history>>
    /\ UNCHANGED <<coordVars, mgrVars>>

\* a caller constructs GemnsPacketFlags(flags_byte) from the first byte
CallGemnsPacketFlags ==
    /\ pc = "ready"
    /\ Len(arg_data) >= 1
    /\ result' = GemnsPacketFlags(arg_data[1])
    /\ log' = <<>>
    /\ calls' = <<>>
    /\ pc' = "returned"
    /\ op' = "GemnsPacketFlags"
    /\ UNCHANGED <<arg_data, arg_key, arg_record, history>>
    /\ UNCHANGED <<coordVars, mgrVars>>

Next ==
    \/ CallParseGemsPacket
    \/ CallDecryptPayload
    \/ CallValidateCrc
    \/ CallParseSensorData
    \/ CallCalculateCrc8
    \/ CallGemnsPacketFlags

Spec == Init /\ [][Next]_vars

\* how many parse_gems_packet calls one caller makes in a row
MaxCalls == 3

\* the frames and keys of a caller that makes several calls: the leak frame in
\* cleartext and flagged encrypted, and the leak frame with a wrong CRC byte
CallInputs ==
    {Frame(1, RecordBlock(16, 4)),
     Frame(0, RecordBlock(16, 4)),
     <<1>> \o RecordBlock(16, 4) \o <<0>>}

CallKeys == {None, Bytes([i \in 1..16 |-> 43])}

InitCalls ==
    /\ pc = "ready"
    /\ op = "none"
    /\ arg_data \in CallInputs
    /\ arg_key \in CallKeys
    /\ arg_record = None
    /\ history = <<>>
    /\ result = None
    /\ log = <<>>
    /\ calls = <<>>
    /\ CoordAbsent
    /\ MgrAbsent

\* the caller, back from one call, picks the arguments of its next call
NextCall ==
    /\ pc = "returned"
    /\ Len(history) < MaxCalls
    /\ arg_data' \in CallInputs
    /\ arg_key' \in CallKeys
    /\ arg_record' = None
    /\ result' = None
    /\ log' = <<>>
    /\ calls' = <<>>
    /\ pc' = "ready"
    /\ op' = "none"
    /\ UNCHANGED history
    /\ UNCHANGED <<coordVars, mgrVars>>

NextCalls == Next \/ NextCall

SpecCalls == InitCalls /\ [][NextCalls]_vars

\* the same calls, made with well-formed frames that sweep every event code,
\* firmware byte and flags byte
InitFields ==
    /\ pc = "ready"
    /\ op = "none"
    /\ arg_data \in FieldFrames
    /\ arg_key \in FieldKeys
    /\ arg_record = None
    /\ history = <<>>
    /\ result = None
    /\ log = <<>>
    /\ calls = <<>>
    /\ CoordAbsent
    /\ MgrAbsent

SpecFields == InitFields /\ [][Next]_vars

----------------------------------------------------------------------------
(* ble_coordinator.py: the parsing of one advertisement *)

BLE_COMPANY_ID == 3996

\* service_info.address.replace(":", "").upper()[-6:] read as a hexadecimal
\* number, modulo 1000, as "Unit-%03d"; int() raises ValueError when the six
\* characters are not hexadecimal digits
professional_id_of(address) ==
    CASE address = "AA:BB:CC:DD:EE:01" -> [text |-> "Unit-385"]
      [] address = "AA:BB:CC:DD:EE:02" -> [text |-> "Unit-386"]
      [] OTHER                         -> Raised("ValueError")

\* the decryption key of the config entry: bytes.fromhex of the configured
\* string ([hex |-> bytes] when it is well-formed), None when there is no
\* string or fromhex raises ValueError
configured_key(entry) ==
    IF "decryption_key" \in DOMAIN entry /\ "hex" \in DOMAIN entry.decryption_key
    THEN Bytes(entry.decryption_key.hex)
    ELSE None

\* the keys the result gets from parsed_packet['decrypted_data']
decrypted_part(parsed_packet) ==
    IF "decrypted_data" \in DOMAIN parsed_packet
    THEN [decrypted_data |-> parsed_packet.decrypted_data]
         @@ (IF "firmware_version" \in DOMAIN parsed_packet.decrypted_data
             THEN [firmware_version |-> parsed_packet.decrypted_data.firmware_version]
             ELSE EmptyDict)
    ELSE EmptyDict

\* one of the specific sensor values the result copies when it is there
copied(sensor_data, key) ==
    IF key \in DOMAIN sensor_data THEN key :> sensor_data[key] ELSE EmptyDict

\* the keys the result gets from parsed_packet['sensor_data']
sensor_part(parsed_packet) ==
    IF "sensor_data" \in DOMAIN parsed_packet
    THEN [sensor_data |-> parsed_packet.sensor_data]
         @@ copied(parsed_packet.sensor_data, "leak_detected")
         @@ copied(parsed_packet.sensor_data, "event_counter")
         @@ copied(parsed_packet.sensor_data, "sensor_event")
    ELSE EmptyDict

\* _parse_gems_manufacturer_data: {} for a packet that is too short or that
\* parse_gems_packet rejects, else the result dict
_parse_gems_manufacturer_data(mdata, entry) ==
    IF Len(mdata) < 18 THEN EmptyDict
    ELSE LET company_id     == 3996
             flags          == mdata[1]
             encrypted_data == Slice(mdata, 1, 17)
             crc            == mdata[18]
             parsed_packet  == parse_gems_packet(mdata, configured_key(entry))
         IN  IF parsed_packet = None THEN EmptyDict
             ELSE [ company_id       |-> company_id,
                    flags            |-> flags,
                    crc              |-> crc,
                    packet_structure |->
                        [ company_id            |-> company_id,
                          flags                 |-> flags,
                          encrypted_data_length |-> Len(encrypted_data),
                          crc                   |-> crc ] ]
                  @@ decrypted_part(parsed_packet)
                  @@ sensor_part(parsed_packet)

\* the label and the name prefix _parse_advertisement_data gives a numeric
\* device type; types without a branch keep "unknown" and the name
device_type_label(device_type) ==
    CASE device_type = 1 -> [label |-> "button",           title |-> "Gemns IoT Button "]
      [] device_type = 2 -> [label |-> "vibration_sensor", title |-> "Gemns IoT Vibration Monitor "]
      [] device_type = 3 -> [label |-> "two_way_switch",   title |-> "Gemns IoT Two Way Switch "]
      [] device_type = 4 -> [label |-> "leak_sensor",      title |-> "Gemns IoT Leak Sensor "]
      [] device_type = 5 -> [label |-> "vibration_sensor", title |-> "Gemns IoT Vibration Sensor "]
      [] device_type = 6 -> [label |-> "on_off_switch",    title |-> "Gemns IoT On/Off Switch "]
      [] device_type = 7 -> [label |-> "light_switch",     title |-> "Gemns IoT Light Switch "]
      [] device_type = 8 -> [label |-> "door_switch",      title |-> "Gemns IoT Door Switch "]
      [] device_type = 9 -> [label |-> "toggle_switch",    title |-> "Gemns IoT Toggle Switch "]
      [] OTHER           -> [label |-> "unknown",          title |-> ""]

\* the "Determine device type" block: device_type and name are overwritten
\* when sensor_data holds a device type that has a branch
labelled(advert, professional_id) ==
    IF "device_type" \in DOMAIN advert.sensor_data
    THEN LET l == device_type_label(advert.sensor_data.device_type) IN
         IF l.label = "unknown" THEN advert
         ELSE [advert EXCEPT !.device_type = l.label,
                             !.name = l.title \o professional_id]
    ELSE advert

\* the dict _parse_advertisement_data starts from (the wall-clock timestamp
\* is left out)
advert_defaults(service_info, professional_id) ==
    [ address         |-> service_info.address,
      name            |-> IF service_info.name # ""
                          THEN service_info.name
                          ELSE "Gemns IoT Device " \o professional_id,
      rssi            |-> service_info.rssi,
      device_type     |-> "unknown",
      sensor_data     |-> EmptyDict,
      battery_level   |-> None,
      signal_strength |-> service_info.rssi ]

\* _parse_advertisement_data: the dict, or the ValueError int() raises
_parse_advertisement_data(service_info, entry) ==
    LET unit == professional_id_of(service_info.address) IN
    IF IsRaised(unit) THEN unit
    ELSE LET professional_id == unit.text
             defaults == advert_defaults(service_info, professional_id)
             parsed_data ==
                 IF BLE_COMPANY_ID \in DOMAIN service_info.manufacturer_data
                 THEN _parse_gems_manufacturer_data(
                          service_info.manufacturer_data[BLE_COMPANY_ID], entry)
                 ELSE EmptyDict
         IN  labelled(parsed_data @@ defaults, professional_id)

----------------------------------------------------------------------------
(* ble_coordinator.py: the coordinator *)

\* how many discovery passes a coordinator runs
MaxAttempts == 3

\* str.upper() of the addresses that occur
Upper(address) ==
    CASE address = "aa:bb:cc:dd:ee:01" -> "AA:BB:CC:DD:EE:01"
      [] address = "aa:bb:cc:dd:ee:02" -> "AA:BB:CC:DD:EE:02"
      [] OTHER                         -> address

\* address.startswith("gemns_discovery_")
IsDiscoveryId(address) == address = "gemns_discovery_entry1"

\* any(pattern in name.upper() for pattern in ["GEMNS", "GEMS"])
HasGemsPattern(name) == name \in {"Gemns Leak", "GEMS-1"}

\* the address __init__ hands to the base class
initial_address(entry) ==
    IF "address" \in DOMAIN entry /\ entry.address \notin {"", "00:00:00:00:00:00"}
    THEN Upper(entry.address)
    ELSE "gemns_discovery_entry1"

_is_gems_device(discovery_info) ==
    \/ /\ BLE_COMPANY_ID \in DOMAIN discovery_info.manufacturer_data
       /\ Len(discovery_info.manufacturer_data[BLE_COMPANY_ID]) >= 20
    \/ HasGemsPattern(discovery_info.name)

\* the first Gemns device of the discovered list, or None
RECURSIVE first_gems_device(_)
first_gems_device(discovered_devices) ==
    IF discovered_devices = <<>> THEN None
    ELSE IF _is_gems_device(Head(discovered_devices)) THEN Head(discovered_devices)
    ELSE first_gems_device(Tail(discovered_devices))

\* the config entries of the coordinators
EntryAddresses == {"00:00:00:00:00:00", "aa:bb:cc:dd:ee:01"}

EntryKeys == {[hex |-> [i \in 1..16 |-> 43]], [invalid |-> TRUE]}

EntryDatas ==
    {EmptyDict}
    \cup {[address |-> a] : a \in EntryAddresses}
    \cup {[decryption_key |-> k] : k \in EntryKeys}
    \cup {[address |-> a, decryption_key |-> k] : a \in EntryAddresses, k \in EntryKeys}

\* the manufacturer data of the advertisements: cleartext frames of device
\* types 0, 1, 4, 7 and 10 with event code 4, a leak frame with event code
\* 0, an encrypted frame, a frame with a wrong CRC byte, a frame cut to 17
\* bytes
CoordTypes == {0, 1, 4, 7, 10}

CoordFrames ==
    {Frame(1, FieldBlock(16, dt, <<1, 0, 0>>, 4, <<0, 0, 0, 0>>)) : dt \in CoordTypes}
    \cup {Frame(1, FieldBlock(16, 4, <<2, 0, 0>>, 0, <<0, 0, 0, 0>>)),
          Frame(0, AESEncryptBlock([i \in 1..16 |-> 43], RecordBlock(35, 4))),
          <<1>> \o RecordBlock(16, 4) \o <<0>>,
          SubSeq(Frame(1, RecordBlock(16, 4)), 1, 17)}

ManufacturerDatas ==
    {EmptyDict, 76 :> <<2, 21>>} \cup {BLE_COMPANY_ID :> f : f \in CoordFrames}

ServiceInfos ==
    [ address           : {"AA:BB:CC:DD:EE:01", "AA:BB:CC:DD:EE:02"},
      name              : {"Gemns Leak"},
      rssi              : {-60},
      manufacturer_data : ManufacturerDatas ]

\* what async_discovered_service_info returns on one pass
DiscoveredLists ==
    LET other  == [ address |-> "11:22:33:44:55:66", name |-> "Other",
                    rssi |-> -70, manufacturer_data |-> 76 :> <<2, 21>> ]
        short  == [ address |-> "aa:bb:cc:dd:ee:02", name |-> "",
                    rssi |-> -60,
                    manufacturer_data |-> BLE_COMPANY_ID :> Frame(1, RecordBlock(16, 4)) ]
        named  == [ address |-> "aa:bb:cc:dd:ee:02", name |-> "Gemns Leak",
                    rssi |-> -60, manufacturer_data |-> EmptyDict ]
        long   == [ address |-> "aa:bb:cc:dd:ee:01", name |-> "",
                    rssi |-> -60,
                    manufacturer_data |->
                        BLE_COMPANY_ID :> (<<156, 15>> \o Frame(1, RecordBlock(16, 4))) ]
    IN  {<<>>, <<other>>, <<other, short>>, <<other, named>>, <<long, named>>}

\* async_last_service_info(hass, address): None or an advertisement of it
LastServiceInfos(address) ==
    {None} \cup {si \in ServiceInfos : si.address = address}

\* after GemnsBluetoothProcessorCoordinator.__init__
InitCoordinator ==
    /\ CodecIdle
    /\ MgrAbsent
    /\ entry_data \in EntryDatas
    /\ coord_address = initial_address(entry_data)
    /\ coord_data = EmptyDict
    /\ coord_success = TRUE
    /\ coord_notified = FALSE
    /\ disc_pc = "constructed"
    /\ attempts = 0

\* async_init: with a discovery identifier, go and discover; else take the
\* last advertisement, if any, and register the fallback poll
AsyncInit ==
    /\ disc_pc = "constructed"
    /\ IF IsDiscoveryId(coord_address)
       THEN /\ disc_pc' = "discovering"
            /\ UNCHANGED <<coord_data, coord_success>>
       ELSE /\ \E service_info \in LastServiceInfos(coord_address) :
                 coord_data' = IF service_info # None
                               THEN _parse_advertisement_data(service_info, entry_data)
                               ELSE EmptyDict
            /\ coord_success' = TRUE
            /\ disc_pc' = "polling"
    /\ coord_notified' = FALSE
    /\ UNCHANGED <<coord_address, entry_data, attempts, codecVars, mgrVars>>

\* what _update_coordinator_address leaves in data, last_update_success and
\* the listeners for the advertisement async_last_service_info returned
address_update(service_info) ==
    LET parsed_data == IF service_info = None THEN None
                       ELSE _parse_advertisement_data(service_info, entry_data)
    IN  IF service_info = None \/ IsRaised(parsed_data)
        THEN [data |-> coord_data, success |-> coord_success, notified |-> FALSE]
        ELSE [data |-> parsed_data, success |-> TRUE, notified |-> TRUE]

\* one pass of _discover_and_update_address: the first Gemns device found
\* becomes the address; without one, or on a caught exception, the task
\* _schedule_next_discovery is created
DiscoveryPass ==
    /\ disc_pc = "discovering"
    /\ attempts < MaxAttempts
    /\ attempts' = attempts + 1
    /\ \E discovered_devices \in DiscoveredLists, raised \in BOOLEAN :
         LET device == first_gems_device(discovered_devices) IN
         IF raised \/ device = None
         THEN /\ disc_pc' = "sleeping"
              /\ coord_notified' = FALSE
              /\ UNCHANGED <<coord_address, coord_data, coord_success, entry_data>>
         ELSE /\ entry_data' = ("address" :> Upper(device.address)) @@ entry_data
              /\ coord_address' = Upper(device.address)
              /\ \E service_info \in LastServiceInfos(Upper(device.address)) :
                   LET u == address_update(service_info) IN
                   /\ coord_data' = u.data
                   /\ coord_success' = u.success
                   /\ coord_notified' = u.notified
              /\ disc_pc' = "found"
    /\ UNCHANGED <<codecVars, mgrVars>>

\* mutant: _schedule_next_discovery sleeps and returns without discovering
ScheduledDiscoveryWakes_once ==
    /\ disc_pc = "sleeping"
    /\ disc_pc' = "found"
    /\ UNCHANGED <<coord_address, coord_data, coord_success, coord_notified,
                   entry_data, attempts, codecVars, mgrVars>>

\* _schedule_next_discovery after its 5-second sleep: discover again while
\* the address is a discovery identifier
ScheduledDiscoveryWakes ==
    /\ disc_pc = "sleeping"
    /\ disc_pc' = IF IsDiscoveryId(coord_address) THEN "discovering" ELSE "found"
    /\ UNCHANGED <<coord_address, coord_data, coord_success, coord_notified,
                   entry_data, attempts, codecVars, mgrVars>>

\* _async_handle_bluetooth_event, called with an advertisement of the
\* coordinator's address: the parsed advertisement replaces data
HandleBluetoothEventOf(service_info) ==
    /\ disc_pc # "absent"
    /\ service_info.address = coord_address
    /\ LET parsed_data == _parse_advertisement_data(service_info, entry_data) IN
       IF IsRaised(parsed_data)
       THEN /\ coord_success' = FALSE
            /\ coord_notified' = FALSE
            /\ UNCHANGED coord_data
       ELSE /\ coord_data' = parsed_data
            /\ coord_success' = TRUE
            /\ coord_notified' = TRUE
    /\ UNCHANGED <<coord_address, entry_data, disc_pc, attempts, codecVars, mgrVars>>

HandleBluetoothEvent == \E service_info \in ServiceInfos : HandleBluetoothEventOf(service_info)

\* _async_schedule_poll, every FALLBACK_POLL_INTERVAL once async_init
\* registered it
Poll ==
    /\ disc_pc = "polling"
    /\ coord_success' = (coord_data # EmptyDict)
    /\ coord_notified' = TRUE
    /\ UNCHANGED <<coord_address, coord_data, entry_data, disc_pc, attempts,
                   codecVars, mgrVars>>

\* async_shutdown
AsyncShutdown ==
    /\ disc_pc # "absent"
    /\ coord_data' = EmptyDict
    /\ coord_success' = FALSE
    /\ coord_notified' = FALSE
    /\ UNCHANGED <<coord_address, entry_data, disc_pc, attempts, codecVars, mgrVars>>

NextCoordinator ==
    \/ AsyncInit
    \/ DiscoveryPass
    \/ ScheduledDiscoveryWakes
    \/ HandleBluetoothEvent
    \/ Poll
    \/ AsyncShutdown

SpecCoordinator == InitCoordinator /\ [][NextCoordinator]_vars

\* the event loop runs an awaited discovery pass and resumes the task
\* _schedule_next_discovery when its sleep is over
FairSpecCoordinator ==
    SpecCoordinator /\ WF_vars(DiscoveryPass) /\ WF_vars(ScheduledDiscoveryWakes)

----------------------------------------------------------------------------
(* device_management.py: the device manager *)

\* how many notification tasks and signals a run holds
MaxSignals == 4

SIGNAL_DEVICE_UPDATED == "gemns_device_updated"

SIGNAL_DEVICE_ADDED == "gemns_device_added"

DeviceIds == {"dev1", "dev2"}

\* dict.get(key, default)
Get(d, key, default) == IF key \in DOMAIN d THEN d[key] ELSE default

\* the device_data handed to add_device
DeviceDatas ==
    {EmptyDict, [name |-> "Leak sensor"]}
    \cup {[device_id |-> d] : d \in DeviceIds}
    \cup {[device_id |-> d, status |-> "connected"] : d \in DeviceIds}

\* the payloads of the device messages: text that is no JSON, or the JSON
\* object it spells
MessagePayloads ==
    {[garbage |-> TRUE], [json |-> EmptyDict], [json |-> [device_id |-> ""]]}
    \cup {[json |-> [device_id |-> d, status |-> st]] :
            d \in DeviceIds, st \in {"connected", "offline"}}

\* the device entry add_device creates (last_seen, a clock reading, left out)
manual_device(device_data) ==
    [ device_id          |-> device_data.device_id,
      device_type        |-> Get(device_data, "device_type", "ble"),
      category           |-> Get(device_data, "category", "sensor"),
      name               |-> Get(device_data, "name", device_data.device_id),
      ble_discovery_mode |-> Get(device_data, "ble_discovery_mode", "v0_manual"),
      status             |-> Get(device_data, "status", "disconnected"),
      created_manually   |-> TRUE,
      properties         |-> EmptyDict ]

\* the message data with the fields _handle_device_message fills in
\* (last_seen left out)
completed_message(message_data) ==
    message_data
    @@ [name |-> message_data.device_id, properties |-> EmptyDict]

\* after GemnsDeviceManager.__init__
InitManager ==
    /\ CodecIdle
    /\ CoordAbsent
    /\ mgr_devices = EmptyDict
    /\ mgr_created = {}
    /\ mgr_tasks = <<>>
    /\ mgr_signals = <<>>
    /\ mgr_result = None

\* add_device: the device is stored and _async_notify_device_added is
\* scheduled; device_data without "device_id" raises KeyError, which is
\* caught: False
AddDevice ==
    /\ Len(mgr_tasks) + Len(mgr_signals) < MaxSignals
    /\ \E device_data \in DeviceDatas :
         IF "device_id" \in DOMAIN device_data
         THEN LET device == manual_device(device_data) IN
              /\ mgr_devices' = (device.device_id :> device) @@ mgr_devices
              /\ mgr_tasks' = Append(mgr_tasks,
                                     [task |-> "_async_notify_device_added",
                                      device_data |-> device])
              /\ mgr_result' = TRUE
         ELSE /\ mgr_result' = FALSE
              /\ UNCHANGED <<mgr_devices, mgr_tasks>>
    /\ UNCHANGED <<mgr_created, mgr_signals, codecVars, coordVars>>

\* _handle_device_message: a message with a device_id replaces the stored
\* device and schedules _async_notify_device_update; anything else changes
\* nothing
HandleDeviceMessage ==
    /\ Len(mgr_tasks) + Len(mgr_signals) < MaxSignals
    /\ \E payload \in MessagePayloads :
         IF "json" \in DOMAIN payload /\ Get(payload.json, "device_id", "") # ""
         THEN LET message_data == completed_message(payload.json) IN
              /\ mgr_devices' = (message_data.device_id :> message_data) @@ mgr_devices
              /\ mgr_tasks' = Append(mgr_tasks,
                                     [task |-> "_async_notify_device_update",
                                      device_data |-> message_data])
         ELSE UNCHANGED <<mgr_devices, mgr_tasks>>
    /\ UNCHANGED <<mgr_created, mgr_signals, mgr_result, codecVars, coordVars>>

\* one dispatcher signal
Signal(signal, device_data) == [signal |-> signal, device_id |-> device_data.device_id]

\* the event loop runs _async_notify_device_added: the device-added signal,
\* whatever _created_entities holds
RunNotifyDeviceAdded ==
    /\ mgr_tasks # <<>>
    /\ Head(mgr_tasks).task = "_async_notify_device_added"
    /\ mgr_signals' = Append(mgr_signals,
                             Signal(SIGNAL_DEVICE_ADDED, Head(mgr_tasks).device_data))
    /\ mgr_tasks' = Tail(mgr_tasks)
    /\ UNCHANGED <<mgr_devices, mgr_created, mgr_result, codecVars, coordVars>>

\* the event loop runs _async_notify_device_update: the device-updated
\* signal, then the device-added signal for a device_id that is not yet in
\* _created_entities
RunNotifyDeviceUpdate ==
    /\ mgr_tasks # <<>>
    /\ Head(mgr_tasks).task = "_async_notify_device_update"
    /\ LET device_data == Head(mgr_tasks).device_data
           device_id   == device_data.device_id
           updated     == Append(mgr_signals, Signal(SIGNAL_DEVICE_UPDATED, device_data))
       IN  IF device_id \notin mgr_created
           THEN /\ mgr_created' = mgr_created \cup {device_id}
                /\ mgr_signals' = Append(updated, Signal(SIGNAL_DEVICE_ADDED, device_data))
           ELSE /\ mgr_signals' = updated
                /\ UNCHANGED mgr_created
    /\ mgr_tasks' = Tail(mgr_tasks)
    /\ UNCHANGED <<mgr_devices, mgr_result, codecVars, coordVars>>

NextManager ==
    \/ AddDevice
    \/ HandleDeviceMessage
    \/ RunNotifyDeviceAdded
    \/ RunNotifyDeviceUpdate

SpecManager == InitManager /\ [][NextManager]_vars

----------------------------------------------------------------------------
(* Properties *)

Returned(o) == pc = "returned" /\ op = o

\* the value carries both the decoded record and the sensor event
HasRecordAndEvent(r) ==
    "decrypted_data" \in DOMAIN r /\ "sensor_data" \in DOMAIN r

\* the input is long enough to be framed and passes validate_crc
CrcValid(data) == Len(data) >= 18 /\ validate_crc(GemnsPacket(data))

\* the flags byte of the input marks the block as encrypted (bit 0 = 0)
FlaggedEncrypted(data) == data[1] % 2 = 0

\* C1: for every input of 0..17 bytes and every key, parse_gems_packet
\* returns the failure outcome None (so no flags, record or sensor event).
C1_ShortInputFails ==
    (Returned("parse_gems_packet") /\ Len(arg_data) < 18) => result = None

C1_Witness ==
    /\ Returned("parse_gems_packet")
    /\ Len(arg_data) = 17
    /\ Truthy(arg_key) /\ Len(arg_key.bytes) = 16
    /\ result = None

\* C2: for every input longer than 18 bytes and every key, parse_gems_packet
\* returns exactly what it returns for the first 18 bytes of that input.
C2_TrailingBytesIgnored ==
    (Returned("parse_gems_packet") /\ Len(arg_data) > 18)
        => result = parse_gems_packet(SubSeq(arg_data, 1, 18), arg_key)

\* C3: for every 18-byte input, validate_crc is true exactly when byte 17
\* equals the CRC-8 of 0x9C, 0x0F followed by input bytes 0..16.
C3_CrcSpan ==
    (Returned("validate_crc") /\ Len(arg_data) = 18)
        => (result <=> (arg_data[18]
                          = _calculate_crc8(<<156, 15>> \o SubSeq(arg_data, 1, 17))))

C3_Witness ==
    /\ Returned("validate_crc")
    /\ Len(arg_data) = 18
    /\ result = TRUE

\* C4: for every input of at least 18 bytes whose CRC byte (byte 17) differs
\* from the checksum validate_crc computes, parse_gems_packet returns None
\* for any key.
C4_CrcMismatchFails ==
    (/\ Returned("parse_gems_packet")
     /\ Len(arg_data) >= 18
     /\ arg_data[18] # calculated_crc(GemnsPacket(arg_data)))
        => result = None

C4_Witness ==
    /\ Returned("parse_gems_packet")
    /\ Len(arg_data) = 18
    /\ arg_data[18] # _calculate_crc8(<<156, 15>> \o SubSeq(arg_data, 1, 17))
    /\ Truthy(arg_key) /\ Len(arg_key.bytes) = 16
    /\ result = None
    /\ log = <<"warning: CRC validation failed">>

InSeq(x, s) == \E i \in DOMAIN s : s[i] = x

C7_WrongKeyLengthFails ==
    (/\ Returned("parse_gems_packet")
     /\ CrcValid(arg_data)
     /\ FlaggedEncrypted(arg_data)
     /\ arg_key # None
     /\ Len(arg_key.bytes) # 16)
        => "sensor_data" \notin DOMAIN result

\* C8: for every CRC-valid frame flagged cleartext, parse_gems_packet
\* produces the decoded record and the sensor event whether or not a key is
\* supplied.
C8_CleartextNeedsNoKey ==
    (/\ Returned("parse_gems_packet")
     /\ CrcValid(arg_data)
     /\ ~FlaggedEncrypted(arg_data))
        => HasRecordAndEvent(result)

\* C9: for every frame flagged cleartext and every key value, decrypt_payload
\* derives src_id, nwk_id, the firmware byte, device_type and payload from the
\* received block bytes unchanged and never invokes the cipher.
C9_CleartextIdentity ==
    (Returned("decrypt_payload") /\ ~FlaggedEncrypted(arg_data))
        => LET b == SubSeq(arg_data, 2, 17) IN
           /\ "src_id" \in DOMAIN result
           /\ result.src_id = b[1] + 256 * b[2] + 65536 * b[3]
           /\ result.nwk_id = b[4] + 256 * b[5]
           /\ result.fw_version = b[6]
           /\ result.device_type = <<b[7], b[8]>>
           /\ result.payload = SubSeq(b, 9, 16)
           /\ ~InSeq("AES", calls)

C9_Witness ==
    /\ Returned("decrypt_payload")
    /\ ~FlaggedEncrypted(arg_data)
    /\ Truthy(arg_key) /\ Len(arg_key.bytes) = 16
    /\ "payload" \in DOMAIN result
    /\ result.payload = SubSeq(arg_data, 10, 17)
    /\ calls = <<"GemnsEncryptedData">>

\* the input cut to 17 bytes: too short to be framed
TooShort(data) == SubSeq(data, 1, 17)

DerivedFlags == {"leak_detected", "vibration_detected", "switch_on", "button_pressed"}

\* the event counter the first three payload bytes spell, little-endian
CounterOf(payload) == payload[1] + 256 * payload[2] + 65536 * payload[3]

\* C11: for every record whose device type is outside {0, 1, 2, 3, 4} (5..9
\* included), parse_sensor_data returns a sensor event without any derived
\* boolean that still holds event_counter (payload[0:3], little-endian) and
\* sensor_event (payload[3]).
C11_UnknownTypeRawFields ==
    (/\ Returned("parse_sensor_data")
     /\ UnpackLE16(arg_record.device_type) \notin 0..4
     /\ Len(arg_record.payload) >= 4)
        => /\ DOMAIN result \cap DerivedFlags = {}
           /\ "event_counter" \in DOMAIN result
           /\ "sensor_event" \in DOMAIN result
           /\ result.event_counter = CounterOf(arg_record.payload)
           /\ result.sensor_event = arg_record.payload[4]

\* the device type code of the record handed to parse_sensor_data
RecordType == UnpackLE16(arg_record.device_type)

\* the sensor event holds the boolean named flag, with value v
HasFlag(flag, v) == flag \in DOMAIN result /\ result[flag] = v

\* C12: for every event code c in 0..255 (payload[3] of a payload of at least
\* 4 bytes), parse_sensor_data sets leak_detected = (c = 4) for type 4,
\* vibration_detected = (c = 1) for type 2, switch_on = (c = 3) for type 3 and
\* button_pressed = (c = 0) for types 0 and 1: exact matches only.
C12_ExactMatch ==
    (Returned("parse_sensor_data") /\ Len(arg_record.payload) >= 4)
        => LET c == arg_record.payload[4] IN
           /\ RecordType = 4 => HasFlag("leak_detected", c = 4)
           /\ RecordType = 2 => HasFlag("vibration_detected", c = 1)
           /\ RecordType = 3 => HasFlag("switch_on", c = 3)
           /\ RecordType \in {0, 1} => HasFlag("button_pressed", c = 0)

C12_Witness ==
    /\ Returned("parse_sensor_data")
    /\ RecordType = 3
    /\ Len(arg_record.payload) = 8
    /\ arg_record.payload[4] = 255
    /\ HasFlag("switch_on", FALSE)

\* the boolean parse_sensor_data derives for a known device type
FlagOf(device_type) ==
    CASE device_type = 4 -> "leak_detected"
      [] device_type = 2 -> "vibration_detected"
      [] device_type = 3 -> "switch_on"
      [] OTHER           -> "button_pressed"

\* the sensor event holds the quiescent values of its device type
Quiescent ==
    /\ "event_counter" \in DOMAIN result /\ result.event_counter = 0
    /\ "sensor_event" \in DOMAIN result /\ result.sensor_event = 0
    /\ HasFlag(FlagOf(RecordType), FALSE)

\* C13 (as stated): when the flags declare a payload_length below 4, then for
\* every known device type and whatever the payload bytes are, the sensor
\* event has event_counter 0, sensor_event 0 and its boolean false.
C13_DeclaredLengthQuiescent ==
    (/\ Returned("parse_sensor_data")
     /\ RecordType \in 0..4
     /\ arg_record.payload_length < 4)
        => Quiescent

\* C13 (amended): for every known device type and every declared
\* payload_length, a payload of fewer than 4 bytes gives the quiescent values,
\* and a payload of at least 4 bytes is decoded from its bytes.
C13_ShortPayloadQuiescent ==
    (Returned("parse_sensor_data") /\ RecordType \in 0..4)
        => IF Len(arg_record.payload) < 4
           THEN Quiescent
           ELSE /\ "event_counter" \in DOMAIN result
                /\ result.event_counter = CounterOf(arg_record.payload)
                /\ result.sensor_event = arg_record.payload[4]

C13_Witness ==
    /\ Returned("parse_sensor_data")
    /\ RecordType = 2
    /\ arg_record.payload = <<255, 255, 255>>
    /\ arg_record.payload_length = 15
    /\ Quiescent

\* the frame that differs from the 18-byte input only in flag bits 4..7, set
\* to k, and in the CRC byte recomputed for it
WithDeclaredLength(data, k) == Frame((data[1] % 16) + 16 * k, SubSeq(data, 2, 17))

\* a sensor event with its payload_length field blanked
SansPayloadLength(sensor_data) == [sensor_data EXCEPT !.payload_length = 0]

\* C14: for every CRC-valid 18-byte frame and every key, each frame that
\* differs from it only in flag bits 4..7 (CRC recomputed) decodes with the
\* same key to a sensor event equal in every field except payload_length,
\* which is the declared value.
C14_PayloadLengthDiagnosticOnly ==
    (Returned("parse_gems_packet") /\ Len(arg_data) = 18 /\ CrcValid(arg_data))
        => \A k \in 0..15 :
             LET other == parse_gems_packet(WithDeclaredLength(arg_data, k), arg_key) IN
             /\ other # None
             /\ ("sensor_data" \in DOMAIN result) <=> ("sensor_data" \in DOMAIN other)
             /\ "sensor_data" \in DOMAIN result
                  => /\ SansPayloadLength(other.sensor_data)
                          = SansPayloadLength(result.sensor_data)
                     /\ other.sensor_data.payload_length = k

C14_Witness ==
    /\ Returned("parse_gems_packet")
    /\ arg_data[1] = 241
    /\ "sensor_data" \in DOMAIN result
    /\ result.sensor_data.payload_length = 15
    /\ HasRecordAndEvent(parse_gems_packet(WithDeclaredLength(arg_data, 0), arg_key))
    /\ result.sensor_data.device_type = 4
    /\ result.sensor_data.leak_detected

\* the leak scenario: flags 0x01, record 01 02 03 | 04 05 | 10 | 04 00 |
\* 01 00 00 04 00 00 00 00, CRC byte 0xD2
LeakFrame == <<1, 1, 2, 3, 4, 5, 16, 4, 0, 1, 0, 0, 4, 0, 0, 0, 0, 210>>

\* the result holds the record and the sensor event of the leak scenario
LeakDecoded(r) ==
    /\ HasRecordAndEvent(r)
    /\ r.sensor_data.device_type = 4
    /\ r.sensor_data.event_counter = 1
    /\ r.sensor_data.sensor_event = 4
    /\ r.sensor_data.leak_detected = TRUE
    /\ r.sensor_data.payload_length = 0
    /\ r.decrypted_data.firmware_version = "1.0"
    /\ r.decrypted_data.nwk_id = 1284

\* C15: parse_gems_packet decodes the leak scenario's frame to device type 4,
\* event_counter 1, sensor_event 4, leak_detected true, firmware version
\* "1.0" and nwk_id 0x0504, although its flags declare payload_length 0.
C15_LeakScenario ==
    (Returned("parse_gems_packet") /\ arg_data = LeakFrame) => LeakDecoded(result)

\* the scenario's frame decodes as stated once a non-empty key is handed over
C15_DecodedWithKey ==
    (Returned("parse_gems_packet") /\ arg_data = LeakFrame /\ Truthy(arg_key))
        => LeakDecoded(result)

\* the values payload bytes 4..7 are replaced with
OtherTails == Tails \cup {<<255, 255, 255, 255>>, <<0, 0, 0, 1>>}

\* C16: for every known device type and every 8-byte payload,
\* parse_sensor_data gives event_counter = payload[0] + 256 * payload[1]
\* + 65536 * payload[2] and sensor_event = payload[3], and returns the same
\* sensor event whatever payload bytes 4..7 are.
C16_CounterAndCode ==
    (/\ Returned("parse_sensor_data")
     /\ RecordType \in 0..4
     /\ Len(arg_record.payload) = 8)
        => /\ "event_counter" \in DOMAIN result
           /\ result.event_counter = CounterOf(arg_record.payload)
           /\ result.sensor_event = arg_record.payload[4]
           /\ \A t \in OtherTails :
                parse_sensor_data(
                    [arg_record EXCEPT !.payload = SubSeq(@, 1, 4) \o t]) = result

C16_Witness ==
    /\ Returned("parse_sensor_data")
    /\ RecordType = 0
    /\ arg_record.payload = <<255, 255, 255, 200, 9, 8, 7, 6>>
    /\ result.event_counter = 16777215
    /\ result.sensor_event = 200

\* the 16-byte plaintext block of the input: the block itself when the flags
\* mark it cleartext, else its AES decryption under the key handed over
Plaintext ==
    IF arg_data[1] % 2 = 1
    THEN SubSeq(arg_data, 2, 17)
    ELSE AESDecryptBlock(arg_key.bytes, SubSeq(arg_data, 2, 17))

\* C17: for every 16-byte plaintext block, the record takes src_id from
\* bytes 0..2, nwk_id = byte 3 + 256 * byte 4, the firmware byte from byte 5,
\* the device type = byte 6 + 256 * byte 7 and the payload from bytes 8..15:
\* the five fields lie end to end and cover the block.
C17_FixedOffsets ==
    (Returned("parse_gems_packet") /\ result # None /\ HasRecordAndEvent(result))
        => LET P == Plaintext
               d == result.decrypted_data
           IN  /\ Len(P) = 16
               /\ d.src_id = P[1] + 256 * P[2] + 65536 * P[3]
               /\ d.nwk_id = P[4] + 256 * P[5]
               /\ d.fw_version = P[6]
               /\ d.device_type = SubSeq(P, 7, 8)
               /\ result.sensor_data.device_type = P[7] + 256 * P[8]
               /\ d.payload = SubSeq(P, 9, 16)

C17_Witness ==
    /\ Returned("parse_gems_packet")
    /\ SubSeq(arg_data, 2, 17) = DistinctBlock
    /\ arg_data[1] = 1
    /\ HasRecordAndEvent(result)
    /\ result.decrypted_data.src_id = 3351057
    /\ result.decrypted_data.nwk_id = 21828
    /\ result.decrypted_data.fw_version = 102
    /\ result.sensor_data.device_type = 4
    /\ result.decrypted_data.payload = <<119, 136, 153, 4, 170, 187, 204, 221>>

\* the same offsets apply to a block that went through the cipher
C17_WitnessDecrypted ==
    /\ Returned("parse_gems_packet")
    /\ SubSeq(arg_data, 2, 17) = DistinctBlock
    /\ arg_data[1] = 0
    /\ HasRecordAndEvent(result)
    /\ result.decrypted_data.payload = SubSeq(Plaintext, 9, 16)
    /\ Plaintext # DistinctBlock

\* the decimal text of a nibble
NibbleText(n) ==
    <<"0", "1", "2", "3", "4", "5", "6", "7", "8", "9",
      "10", "11", "12", "13", "14", "15">>[n + 1]

\* "major.minor" for a firmware byte
VersionText(b) == NibbleText(b \div 16) \o "." \o NibbleText(b % 16)

\* C18: for every firmware byte b in 0..255 (byte 5 of the plaintext block),
\* decrypt_payload renders firmware_version as "major.minor" with
\* major = b div 16 and minor = b mod 16 in decimal (0x10 -> "1.0",
\* 0x23 -> "2.3", 0x00 -> "0.0"), and no other byte renders to the same text.
C18_FirmwareVersion ==
    (Returned("decrypt_payload") /\ "firmware_version" \in DOMAIN result)
        => LET b == Plaintext[6] IN
           /\ result.firmware_version = VersionText(b)
           /\ b = 16 => result.firmware_version = "1.0"
           /\ b = 35 => result.firmware_version = "2.3"
           /\ b = 0 => result.firmware_version = "0.0"
           /\ \A other \in (0..255) \ {b} :
                firmware_version_of(other) # result.firmware_version

C18_Witness ==
    /\ Returned("decrypt_payload")
    /\ "firmware_version" \in DOMAIN result
    /\ Plaintext[6] = 27
    /\ result.firmware_version = "1.11"

\* C19: for every flags byte b in 0..255, GemnsPacketFlags(b) does not fail
\* and gives encrypt_status = b mod 2, self_external_power = (b div 2) mod 2,
\* event_counter_lsb = (b div 4) mod 4 and payload_length = b div 16; the four
\* fields put back at bits 0, 1, 2..3 and 4..7 give b.
C19_FlagFields ==
    Returned("GemnsPacketFlags")
        => LET b == arg_data[1] IN
           /\ DOMAIN result = {"encrypt_status", "self_external_power",
                               "event_counter_lsb", "payload_length"}
           /\ result.encrypt_status = b % 2
           /\ result.self_external_power = (b \div 2) % 2
           /\ result.event_counter_lsb = (b \div 4) % 4
           /\ result.payload_length = b \div 16
           /\ result.encrypt_status + 2 * result.self_external_power
                + 4 * result.event_counter_lsb + 16 * result.payload_length = b

C19_Witness ==
    /\ Returned("GemnsPacketFlags")
    /\ arg_data[1] = 166
    /\ result = [ encrypt_status |-> 0, self_external_power |-> 1,
                  event_counter_lsb |-> 1, payload_length |-> 10 ]

\* Reference CRC-8 (polynomial x^8 + x^2 + x + 1 = 0x07, initial value 0,
\* most significant bit first, no reflection, no final XOR): the remainder of
\* the long division of the message followed by eight zero bits.

\* one division step: bit m is shifted into the 8-bit remainder r, and the
\* polynomial is subtracted when a 1 is shifted out
RefBit ==
    [r \in 0..255, m \in 0..1 |->
        IF r >= 128 THEN Xor((r * 2 + m) % 256, 7) ELSE (r * 2 + m) % 256]

\* bit n (1 = most significant) of a nibble
BitOf(nibble, n) == (nibble \div <<8, 4, 2, 1>>[n]) % 2

\* the remainder after the first n bits of a nibble were shifted in
RECURSIVE RefFeed(_, _, _)
RefFeed(r, nibble, n) ==
    IF n = 0 THEN r ELSE RefBit[RefFeed(r, nibble, n - 1), BitOf(nibble, n)]

RefNibble == [r \in 0..255, nibble \in 0..15 |-> RefFeed(r, nibble, 4)]

\* the remainder after the first n bytes of the message
RECURSIVE RefAfter(_, _)
RefAfter(data, n) ==
    IF n = 0 THEN 0
    ELSE RefNibble[RefNibble[RefAfter(data, n - 1), data[n] \div 16], data[n] % 16]

RefCrc8(data) == RefNibble[RefNibble[RefAfter(data, Len(data)), 0], 0]

\* the ASCII digits "123456789", whose CRC-8 under these parameters is 0xF4
CheckString == <<49, 50, 51, 52, 53, 54, 55, 56, 57>>

\* C20: for every byte sequence, _calculate_crc8 returns the reference CRC-8
\* (polynomial 0x07, initial value 0, MSB first, no reflection, no final XOR),
\* a value in 0..255; the CRC of the empty sequence is 0.  The same holds for
\* every prefix of an 18-byte sequence.
C20_CrcIsReference ==
    Returned("_calculate_crc8")
        => /\ result = RefCrc8(arg_data)
           /\ result \in 0..255
           /\ arg_data = <<>> => result = 0
           /\ Len(arg_data) = 18 =>
                \A n \in 0..17 :
                    _calculate_crc8(SubSeq(arg_data, 1, n))
                        = RefCrc8(SubSeq(arg_data, 1, n))
           /\ _calculate_crc8(CheckString) = 244

C20_Witness ==
    /\ Returned("_calculate_crc8")
    /\ arg_data = LeakFrame \o <<90, 90>>
    /\ result = RefCrc8(arg_data)
    /\ result # 0

C20_WitnessEmpty ==
    /\ Returned("_calculate_crc8")
    /\ arg_data = <<>>
    /\ result = 0

\* the input with bit b (0 = least significant) of its byte i flipped
FlipBit(data, i, b) ==
    [data EXCEPT ![i] = Xor(@, <<1, 2, 4, 8, 16, 32, 64, 128>>[b + 1])]

\* C21: for every 18-byte frame that passes validate_crc, flipping any single
\* bit of the flags byte or of the 16-byte block, the CRC byte left as
\* received, changes the computed CRC, so validate_crc fails on the corrupted
\* frame.
C21_SingleBitDetected ==
    (Returned("validate_crc") /\ Len(arg_data) = 18 /\ result = TRUE)
        => \A i \in 1..17 : \A b \in 0..7 :
             LET corrupted == GemnsPacket(FlipBit(arg_data, i, b)) IN
             /\ calculated_crc(corrupted) # calculated_crc(GemnsPacket(arg_data))
             /\ ~validate_crc(corrupted)

C21_Witness ==
    /\ Returned("validate_crc")
    /\ arg_data = LeakFrame
    /\ result = TRUE
    /\ ~validate_crc(GemnsPacket(FlipBit(arg_data, 17, 7)))
    /\ ~validate_crc(GemnsPacket(FlipBit(arg_data, 1, 0)))

\* C22: for every input byte sequence (empty included) and every key (absent,
\* empty, or of any length), parse_gems_packet propagates no exception: it
\* returns None or a result dict.
C22_NoExceptionPropagates ==
    /\ pc = "ready" => ~IsRaised(parse_gems_packet(arg_data, arg_key))
    /\ Returned("parse_gems_packet")
         => /\ ~IsRaised(result)
            /\ result = None \/ "company_id" \in DOMAIN result

C22_Witness ==
    /\ Returned("parse_gems_packet")
    /\ CrcValid(arg_data)
    /\ FlaggedEncrypted(arg_data)
    /\ Truthy(arg_key) /\ Len(arg_key.bytes) = 15
    /\ log = <<"error: Decryption failed">>
    /\ "company_id" \in DOMAIN result
    /\ ~HasRecordAndEvent(result)

\* an empty input with an absent key returns the failure outcome
C22_WitnessEmpty ==
    /\ Returned("parse_gems_packet")
    /\ arg_data = <<>>
    /\ arg_key = None
    /\ result = None

EncryptedTwin(data, key) ==
    Frame(data[1] - 1, AESEncryptBlock(key, SubSeq(data, 2, 17)))

\* the fields of a record that come from the 16-byte block
BlockFields(d) ==
    [ src_id           |-> d.src_id,
      nwk_id           |-> d.nwk_id,
      fw_version       |-> d.fw_version,
      firmware_version |-> d.firmware_version,
      device_type      |-> d.device_type,
      payload          |-> d.payload ]

StageOf(callee) ==
    CASE callee = "GemnsPacket"          -> 1
      [] callee = "is_valid_company_id"  -> 2
      [] callee = "validate_crc"         -> 3
      [] callee = "decrypt_payload"      -> 4
      [] callee = "AES"                  -> 5
      [] callee = "decryptor.update"     -> 6
      [] callee = "GemnsEncryptedData"   -> 7
      [] callee = "parse_sensor_data"    -> 8
      [] OTHER                           -> 0

Called(callee) == InSeq(callee, calls)

C25_WitnessStopped ==
    /\ Returned("parse_gems_packet")
    /\ calls = <<"GemnsPacket", "is_valid_company_id", "validate_crc",
                 "decrypt_payload", "AES">>
    /\ ~HasRecordAndEvent(result)

----------------------------------------------------------------------------
\* the advertisement carries Gemns manufacturer data the codec rejects:
\* shorter than 18 bytes, or with a CRC byte that does not match
RejectedByCodec(service_info) ==
    /\ BLE_COMPANY_ID \in DOMAIN service_info.manufacturer_data
    /\ LET mdata == service_info.manufacturer_data[BLE_COMPANY_ID] IN
       \/ Len(mdata) < 18
       \/ ~validate_crc(GemnsPacket(mdata))

\* what the coordinator keeps of a decoded packet: the label, the sensor
\* data with its derived boolean, the firmware version
StoredFields(stored) ==
    [k \in DOMAIN stored \cap {"device_type", "sensor_data", "firmware_version"} |-> stored[k]]

\* the stored data comes from a successfully decoded packet
HoldsDecoded(stored) == "firmware_version" \in DOMAIN stored

\* C26: a Bluetooth event whose Gemns manufacturer data the codec rejects
\* leaves the label, the sensor data and the firmware version the coordinator
\* stored from the last decoded packet as they were.
C26_DroppedPacketKeepsState ==
    [][\A service_info \in ServiceInfos :
          (/\ HoldsDecoded(coord_data)
           /\ RejectedByCodec(service_info)
           /\ HandleBluetoothEventOf(service_info))
          => StoredFields(coord_data') = StoredFields(coord_data)]_vars

\* C28: the coordinator labels a device "unknown" exactly when
\* parse_sensor_data emitted no derived boolean for its numeric device type.
C28_LabelAgreesWithDispatch ==
    ("sensor_data" \in DOMAIN coord_data /\ "device_type" \in DOMAIN coord_data.sensor_data)
    => ((coord_data.device_type = "unknown")
        <=> (DOMAIN coord_data.sensor_data \cap DerivedFlags = {}))

\* the derived booleans the sensor event holds
PresentFlags == DOMAIN result \cap DerivedFlags

\* C27: every sensor event parse_sensor_data returns holds at most one of
\* leak_detected, vibration_detected, switch_on, button_pressed, and the one
\* it holds is the one of the record's device type (4, 2, 3, and 0 or 1).
C27_AtMostOneDerivedBoolean ==
    Returned("parse_sensor_data")
        => /\ Cardinality(PresentFlags) <= 1
           /\ \A flag \in PresentFlags :
                 RecordType \in 0..4 /\ flag = FlagOf(RecordType)

C27_Witness ==
    /\ Returned("parse_sensor_data")
    /\ RecordType = 3
    /\ PresentFlags = {"switch_on"}

C27_WitnessNone ==
    /\ Returned("parse_sensor_data")
    /\ RecordType > 4
    /\ PresentFlags = {}

\* the upper-cased addresses of the Gemns devices discovery can find
FoundAddresses ==
    {Upper(first_gems_device(l).address) :
        l \in {d \in DiscoveredLists : first_gems_device(d) # None}}

\* a discovery pass is running or the task that re-runs it is asleep
DiscoveryPending == disc_pc \in {"discovering", "sleeping"}

\* C29: a coordinator started with a "gemns_discovery_" address keeps a
\* discovery pending while its address is a discovery identifier: when the
\* 5-second wait is over the next pass is started, and a started pass is run.
\* Once a pass found a Gemns device the address is that device's upper-cased
\* MAC address, the config entry holds it too, and from then on no pass is
\* run or scheduled and the address stays.
C29_DiscoveryChain ==
    /\ [](DiscoveryPending => IsDiscoveryId(coord_address))
    /\ [](disc_pc = "found"
            => /\ coord_address \in FoundAddresses
               /\ "address" \in DOMAIN entry_data
               /\ entry_data.address = coord_address)
    /\ [][/\ (disc_pc = "sleeping" /\ disc_pc' # "sleeping")
                => disc_pc' = "discovering"
          /\ disc_pc = "found"
                => /\ disc_pc' = "found"
                   /\ attempts' = attempts
                   /\ coord_address' = coord_address]_vars
    /\ (disc_pc = "sleeping") ~> (disc_pc = "discovering")
    /\ (disc_pc = "discovering" /\ attempts < MaxAttempts)
            ~> (disc_pc \in {"sleeping", "found"})

\* a device was found on a pass that followed a failed pass and a wait
C29_Witness ==
    /\ disc_pc = "found"
    /\ attempts >= 2
    /\ coord_address = "AA:BB:CC:DD:EE:02"

\* the task is asleep after a pass that found nothing
C29_WitnessWaiting ==
    /\ disc_pc = "sleeping"
    /\ attempts >= 1
    /\ IsDiscoveryId(coord_address)

\* how often the device-added signal was dispatched for a device_id
AddedSignals(device_id) ==
    Cardinality({i \in DOMAIN mgr_signals :
                    mgr_signals[i] = [signal |-> SIGNAL_DEVICE_ADDED, device_id |-> device_id]})

\* C30: for each device_id the device manager dispatches the device-added
\* signal at most once, whatever add_device calls and device messages for
\* that id it handles.
C30_AddedSignalAtMostOnce ==
    \A device_id \in DeviceIds : AddedSignals(device_id) <= 1

====
